---- MODULE Spec2Model ----
(***************************************************************************)
(* Model of src/index.tsx (SignaturePad): the stroke capture handlers,     *)
(* the size-bounded exporter getOptimizedDataUrl, the two export handlers  *)
(* and the advisory analysis analyzeSignature, run on the single-threaded  *)
(* browser event loop.                                                     *)
(*                                                                         *)
(* Numbers of the exporter (scale, quality) are IEEE-754 doubles.  Every   *)
(* double the search can produce is an integer multiple of 2^-56, so a     *)
(* double is kept as that integer, split into two limbs:                   *)
(*      value = (hi * 2^28 + lo) * 2^-56,   0 <= lo < 2^28.                *)
(* Subtraction is exact on the integers and then rounded to the 53-bit     *)
(* grid of the result (round to nearest, ties to even), as the hardware    *)
(* does.                                                                   *)
(***************************************************************************)
EXTENDS Integers, Sequences, FiniteSets, TLC

(***************************************************************************)
(* IEEE-754 double arithmetic                                              *)
(***************************************************************************)
Limb == 2^28

\* the double literals of the source, in units of 2^-56
F_1_0  == [hi |-> 268435456, lo |-> 0]
F_0_9  == [hi |-> 241591910, lo |-> 107374184]
F_0_1  == [hi |-> 26843545,  lo |-> 161061274]
\* a scale step of 0.1 instead of 0.15
F_0_15_Small == [hi |-> 26843545,  lo |-> 161061274]
F_0_15 == [hi |-> 40265318,  lo |-> 107374182]
F_0_05 == [hi |-> 13421772,  lo |-> 214748365]

\* a > b on doubles
FGt(a, b) == \/ a.hi > b.hi
             \/ a.hi = b.hi /\ a.lo > b.lo

FNeg(a) == IF a.lo = 0 THEN [hi |-> 0 - a.hi, lo |-> 0]
           ELSE [hi |-> 0 - a.hi - 1, lo |-> Limb - a.lo]

\* a - b on the integers, no rounding
FSubExact(a, b) ==
  IF a.lo >= b.lo THEN [hi |-> a.hi - b.hi, lo |-> a.lo - b.lo]
  ELSE [hi |-> a.hi - b.hi - 1, lo |-> a.lo + Limb - b.lo]

\* spacing of the doubles around a magnitude m >= 0, in units of 2^-56
FUlp(m) == IF m.hi >= 268435456 THEN 16
           ELSE IF m.hi >= 134217728 THEN 8
           ELSE IF m.hi >= 67108864 THEN 4
           ELSE IF m.hi >= 33554432 THEN 2
           ELSE 1

\* a rounding that truncates towards zero
FRoundDown(m) ==
  LET u    == FUlp(m)
      r    == m.lo % u
  IN  [hi |-> m.hi, lo |-> m.lo - r]

\* round a magnitude m >= 0 to the nearest double, ties to even
FRound(m) ==
  LET u    == FUlp(m)
      r    == m.lo % u
      down == m.lo - r
      up   == IF 2 * r > u THEN TRUE
              ELSE IF 2 * r < u THEN FALSE
              ELSE (down \div u) % 2 = 1
      lo2  == IF up THEN down + u ELSE down
  IN  IF lo2 >= Limb THEN [hi |-> m.hi + 1, lo |-> lo2 - Limb]
      ELSE [hi |-> m.hi, lo |-> lo2]

\* the double a - b
FSub(a, b) ==
  LET d == FSubExact(a, b)
  IN  IF d.hi < 0 THEN FNeg(FRound(FNeg(d))) ELSE FRound(d)

(***************************************************************************)
(* Bounds and input sets                                                   *)
(***************************************************************************)
\* longest stroke session explored (draw stops appending beyond it)
MaxPoints == 4

MAX_FILE_SIZE_BYTES == 25 * 1024
DISPLAY_WIDTH == 600
DISPLAY_HEIGHT == 350

\* window.innerWidth and window.devicePixelRatio seen by setupCanvas
Viewports == {[innerWidth |-> 1024, dpr |-> 1], [innerWidth |-> 400, dpr |-> 2]}
\* the viewport in which the component is mounted
MountViewports == {[innerWidth |-> 1024, dpr |-> 1]}

\* canvas.getBoundingClientRect()
Rects == {[left |-> 1, top |-> 1]}

\* pointer events: a mouse event, or a touch event with its contact list
MouseEvents == {[kind |-> "mouse", clientX |-> c, clientY |-> c, touches |-> <<>>] :
                  c \in {1, 3}}
TouchEvents == {[kind |-> "touch", clientX |-> 0, clientY |-> 0, touches |-> t] :
                  t \in {<<[clientX |-> 3, clientY |-> 3]>>,
                         <<[clientX |-> 1, clientY |-> 1], [clientX |-> 3, clientY |-> 3]>>}}
Events == MouseEvents \cup TouchEvents

Formats == {"png", "jpg"}

\* what a click on a typed-signature card passes to exportTypedSignature,
\* with the typedWeight of the slider
TypedInputs == {[name |-> "", font |-> "'Dancing Script', cursive", typedWeight |-> 0],
                [name |-> "Ann", font |-> "'Pacifico', cursive", typedWeight |-> 2]}

\* lengths the encoder's data URL can have: "data:," of an empty surface, the
\* longest length the size test accepts and the shortest it rejects
Lengths == {6, 34155, 34156}

(***************************************************************************)
(* Stroke capture                                                          *)
(***************************************************************************)
\* getCoordinates: position relative to the surface; a touch event resolves
\* to its first contact
getCoordinates(e, rect) ==
  LET clientX == IF e.kind = "touch" THEN e.touches[1].clientX ELSE e.clientX
      clientY == IF e.kind = "touch" THEN e.touches[1].clientY ELSE e.clientY
  IN  [x |-> clientX - rect.left, y |-> clientY - rect.top]

\* Path coordinates are kept in half pixels, so that the midpoint
\* (a + b) / 2 of two integer coordinates is the integer a + b.
MoveTo(p) == [op |-> "M", cx |-> 0, cy |-> 0, x |-> 2 * p.x, y |-> 2 * p.y]
LineTo(x2, y2) == [op |-> "L", cx |-> 0, cy |-> 0, x |-> x2, y |-> y2]
QuadraticCurveTo(cx2, cy2, x2, y2) ==
  [op |-> "Q", cx |-> cx2, cy |-> cy2, x |-> x2, y |-> y2]

\* a curve that ends at the next point instead of the midpoint
MidCurveToNextPoint(pts, i) ==
  QuadraticCurveTo(2 * pts[i + 1].x, 2 * pts[i + 1].y,
                   2 * pts[i + 2].x, 2 * pts[i + 2].y)

\* the curve of the for loop at index i (0-based, as in the source)
MidCurve(pts, i) ==
  LET xc == pts[i + 1].x + pts[i + 2].x
      yc == pts[i + 1].y + pts[i + 2].y
  IN  QuadraticCurveTo(2 * pts[i + 1].x, 2 * pts[i + 1].y, xc, yc)

\* the path draw builds from the session's points (at least 3 of them)
SmoothPath(pts) ==
  LET n == Len(pts)
  IN  <<MoveTo(pts[1])>>
      \o [k \in 1..(n - 3) |-> MidCurve(pts, k)]
      \o <<QuadraticCurveTo(2 * pts[n - 1].x, 2 * pts[n - 1].y,
                            2 * pts[n].x, 2 * pts[n].y)>>

\* the pixels a stroked path is known to cover: its on-curve points
OnCurve(path) == {[x |-> path[k].x, y |-> path[k].y] : k \in 1..Len(path)}

\* the last path drawCanvasGuidelines leaves in the context: the base line
GuidelinePath(width, height) ==
  LET lineY2 == (8 * height) \div 5
  IN  <<[op |-> "M", cx |-> 0, cy |-> 0, x |-> 100, y |-> lineY2],
        LineTo(2 * (width - 50), lineY2)>>

(***************************************************************************)
(* State                                                                   *)
(***************************************************************************)
VARIABLES
  canvasCtx,     \* canvasRef.current.getContext('2d') is available
  canvas,        \* the capture surface: size and the pixels carrying ink
  ctxPath,       \* the current path of the capture surface's 2D context
  isDrawing,     \* isDrawing.current
  points,        \* points.current
  isOptimizing,  \* the isOptimizing state of the component
  rendered,      \* the isOptimizing and isAnalyzing values captured by the
                 \* rendered handlers
  pc,            \* where the running export is; "idle" when no script runs
  cur,           \* the running export: handler, format, source, hasWhiteBg
  scale,         \* getOptimizedDataUrl: scale
  q,             \* getOptimizedDataUrl: q of the quality loop
  work,          \* getOptimizedDataUrl: workCanvas
  attempts,      \* the encodings made by the running search, in order
  result,        \* what getOptimizedDataUrl returned or threw
  download,      \* the last link handed to the browser
  outcome,       \* how the last export handler ended
  isAnalyzing,   \* the isAnalyzing state of the component
  aiAnalysis,    \* the aiAnalysis state of the component
  request,       \* the generateContent call analyzeSignature waits for
  analysisEnd,   \* how the last analyzeSignature ended
  encoder,       \* the browser's encoder: whether toDataURL is a function
                 \* of its input, and the encodings of the last search
  last           \* the handler called last, its pointer position, and
                 \* whether it got past its guards

drawVars   == <<canvasCtx, canvas, ctxPath, isDrawing, points>>
exportVars == <<isOptimizing, rendered, pc, cur, scale, q, work, attempts,
                result, download, outcome>>
advisoryVars == <<isAnalyzing, aiAnalysis, request, analysisEnd>>
vars == <<canvasCtx, canvas, ctxPath, isDrawing, points, isOptimizing,
          rendered, pc, cur, scale, q, work, attempts, result, download, outcome,
          isAnalyzing, aiAnalysis, request, analysisEnd, encoder, last>>

\* a pixel no stroke of the explored sessions reaches, and the pixel at the
\* centre of the typed surface, where the text is drawn
TopRight == [x |-> 702, y |-> 0]
Centre   == [x |-> 2400, y |-> 800]

\* the points the explored pointer events can give, and the sample pixels
\* of a surface: every on-curve position of their paths and the two above
AllPts == {getCoordinates(e, rect) : e \in Events, rect \in Rects}
Pix == {[x |-> a.x + b.x, y |-> a.y + b.y] : a, b \in AllPts}
         \cup {TopRight, Centre}

NoWork == [ctx |-> FALSE, scale |-> <<>>, ops |-> <<>>, px |-> <<>>]
NoFloat == [hi |-> 0, lo |-> 0]
NoCur  == [handler |-> "none", format |-> "none", source |-> "none",
           tempInk |-> {}, tempOps |-> <<>>, hasWhiteBg |-> FALSE,
           quality |-> NoFloat, mimeType |-> "none"]
NoUrl  == [mime |-> "none", quality |-> <<>>, scale |-> <<>>, len |-> 0,
           px |-> <<>>]
NoResult == [kind |-> "none", url |-> NoUrl, line |-> 0]
NoLink == [download |-> "none", mime |-> "none", len |-> 0]
\* no search has been completed yet
NoSearch == [key |-> <<>>, attempts |-> <<>>, result |-> NoResult]

\* setupCanvas (the canvas exists): size the surface for the viewport,
\* which resets the bitmap and the context, then draw the guide lines
SetupCanvasFor(v) ==
  LET dpr       == IF v.dpr = 0 THEN 1 ELSE v.dpr
      rectWidth == IF v.innerWidth < 640 THEN v.innerWidth - 48 ELSE DISPLAY_WIDTH
  IN  [bitmap |-> [width |-> rectWidth * dpr, height |-> DISPLAY_HEIGHT * dpr,
                   ink |-> {}],
       path   |-> IF canvasCtx THEN GuidelinePath(rectWidth, DISPLAY_HEIGHT)
                  ELSE <<>>]

\* the state after the component is mounted, in a browser whose encoder is
\* a function of its input (deterministic) or is not known to be one
Mount(deterministic) ==
  /\ canvasCtx \in BOOLEAN
  /\ \E v \in MountViewports :
       /\ canvas = SetupCanvasFor(v).bitmap
       /\ ctxPath = SetupCanvasFor(v).path
  /\ isDrawing = FALSE
  /\ points = <<>>
  /\ isOptimizing = FALSE
  /\ rendered = [isOptimizing |-> FALSE, isAnalyzing |-> FALSE]
  /\ pc = "idle"
  /\ cur = NoCur
  /\ scale = NoFloat
  /\ q = NoFloat
  /\ work = NoWork
  /\ attempts = <<>>
  /\ result = NoResult
  /\ download = NoLink
  /\ outcome = "none"
  /\ isAnalyzing = FALSE
  /\ aiAnalysis = <<>>
  /\ request = "none"
  /\ analysisEnd = [failed |-> "none", by |-> "none"]
  /\ encoder = [deterministic |-> deterministic, search |-> NoSearch]
  /\ last = [op |-> "mount", pt |-> <<>>, ran |-> TRUE]

Init == Mount(FALSE)

(***************************************************************************)
(* Stroke capture handlers.  A handler runs only when no script is         *)
(* running: the event loop runs one task to completion.  An export click   *)
(* is also taken while an export waits at its await, the one place where   *)
(* an export yields.                                                       *)
(***************************************************************************)
\* a begin that keeps the points of the earlier session
startDrawingKeepsPoints(e, rect) ==
  LET coords == getCoordinates(e, rect)
  IN  /\ pc = "idle"
      /\ isDrawing' = TRUE
      /\ points' = Append(points, coords)
      /\ last' = [op |-> "startDrawing", pt |-> <<coords>>, ran |-> TRUE]
      /\ UNCHANGED <<canvasCtx, canvas, ctxPath>>
      /\ UNCHANGED exportVars
      /\ UNCHANGED <<advisoryVars, encoder>>

\* onMouseDown / onTouchStart
startDrawing(e, rect) ==
  LET coords == getCoordinates(e, rect)
  IN  /\ pc = "idle"
      /\ isDrawing' = TRUE
      /\ points' = <<coords>>
      /\ last' = [op |-> "startDrawing", pt |-> <<coords>>, ran |-> TRUE]
      /\ UNCHANGED <<canvasCtx, canvas, ctxPath>>
      /\ UNCHANGED exportVars
      /\ UNCHANGED <<advisoryVars, encoder>>

\* a threshold of two points
MinPointsTwo == 3 - 1
\* the number of points below which draw does not stroke
MinPoints == 3

\* a draw that is also taken while a search is running
drawDuringSearch(e, rect) ==
  LET coords == getCoordinates(e, rect)
      pts    == Append(points, coords)
      path   == SmoothPath(pts)
  IN  /\ pc \in {"idle", "while", "encode"}
      /\ Len(points) < MaxPoints
      /\ last' = [op |-> "draw", pt |-> <<coords>>, ran |-> isDrawing /\ canvasCtx]
      /\ IF ~isDrawing \/ ~canvasCtx
           THEN UNCHANGED <<points, ctxPath, canvas>>
           ELSE /\ points' = pts
                /\ IF Len(pts) < MinPoints
                     THEN UNCHANGED <<ctxPath, canvas>>
                     ELSE /\ ctxPath' = path
                          /\ canvas' = [canvas EXCEPT !.ink = @ \cup OnCurve(path)]
      /\ UNCHANGED <<canvasCtx, isDrawing>>
      /\ UNCHANGED exportVars
      /\ UNCHANGED <<advisoryVars, encoder>>

\* onMouseMove / onTouchMove
draw(e, rect) ==
  LET coords == getCoordinates(e, rect)
      pts    == Append(points, coords)
      path   == SmoothPath(pts)
  IN  /\ pc = "idle"
      /\ Len(points) < MaxPoints
      /\ last' = [op |-> "draw", pt |-> <<coords>>, ran |-> isDrawing /\ canvasCtx]
      /\ IF ~isDrawing \/ ~canvasCtx
           THEN UNCHANGED <<points, ctxPath, canvas>>
           ELSE /\ points' = pts
                /\ IF Len(pts) < MinPoints
                     THEN UNCHANGED <<ctxPath, canvas>>
                     ELSE /\ ctxPath' = path
                          /\ canvas' = [canvas EXCEPT !.ink = @ \cup OnCurve(path)]
      /\ UNCHANGED <<canvasCtx, isDrawing>>
      /\ UNCHANGED exportVars
      /\ UNCHANGED <<advisoryVars, encoder>>

\* an end that leaves the session open
endDrawingKeepsDrawing ==
  /\ pc = "idle"
  /\ isDrawing' = isDrawing
  /\ last' = [op |-> "end", pt |-> <<>>, ran |-> TRUE]
  /\ UNCHANGED <<canvasCtx, canvas, ctxPath, points>>
  /\ UNCHANGED exportVars
  /\ UNCHANGED <<advisoryVars, encoder>>

\* onMouseUp / onMouseLeave / onTouchEnd
endDrawing ==
  /\ pc = "idle"
  /\ isDrawing' = FALSE
  /\ last' = [op |-> "end", pt |-> <<>>, ran |-> TRUE]
  /\ UNCHANGED <<canvasCtx, canvas, ctxPath, points>>
  /\ UNCHANGED exportVars
  /\ UNCHANGED <<advisoryVars, encoder>>

\* the Clear button
clearCanvas(v) ==
  LET dpr == IF v.dpr = 0 THEN 1 ELSE v.dpr
  IN  /\ pc = "idle"
      /\ last' = [op |-> "clearCanvas", pt |-> <<>>, ran |-> canvasCtx]
      /\ IF ~canvasCtx
           THEN UNCHANGED <<canvas, ctxPath>>
           ELSE /\ canvas' = [canvas EXCEPT !.ink = {}]
                /\ ctxPath' = GuidelinePath(canvas.width \div dpr,
                                            canvas.height \div dpr)
      /\ UNCHANGED <<canvasCtx, isDrawing, points>>
      /\ UNCHANGED exportVars
      /\ aiAnalysis' = IF canvasCtx THEN <<>> ELSE aiAnalysis
      /\ UNCHANGED <<isAnalyzing, request, analysisEnd, encoder>>

\* the resize listener
setupCanvas(v) ==
  /\ pc = "idle"
  /\ last' = [op |-> "setupCanvas", pt |-> <<>>, ran |-> TRUE]
  /\ canvas' = SetupCanvasFor(v).bitmap
  /\ ctxPath' = SetupCanvasFor(v).path
  /\ UNCHANGED <<canvasCtx, isDrawing, points>>
  /\ UNCHANGED exportVars
  /\ UNCHANGED <<advisoryVars, encoder>>

StartDrawing == \E e \in Events, rect \in Rects : startDrawing(e, rect)
Draw         == \E e \in Events, rect \in Rects : draw(e, rect)
EndDrawing   == endDrawing
ClearCanvas  == \E v \in Viewports : clearCanvas(v)
SetupCanvas  == \E v \in Viewports : setupCanvas(v)

NextStroke == StartDrawing \/ Draw \/ EndDrawing \/ ClearCanvas \/ SetupCanvas

SpecStroke == Init /\ [][NextStroke]_vars

(***************************************************************************)
(* Bounded exporter: getOptimizedDataUrl                                   *)
(***************************************************************************)
\* a size estimate that takes the 23 characters of the jpeg prefix
EstimatedSizeJpegPrefix(len) == (3 * (len - 23) + 2) \div 4

\* Math.round((dataUrl.length - 22) * 3 / 4); Math.round(x) is floor(x + 1/2)
EstimatedSize(len) == (3 * (len - 22) + 2) \div 4

\* a size test that truncates the estimate instead of rounding it
FitsTruncating(len) == (3 * (len - 22)) \div 4 <= MAX_FILE_SIZE_BYTES

Fits(len) == EstimatedSize(len) <= MAX_FILE_SIZE_BYTES

MimeType(format) == IF format = "jpg" THEN "image/jpeg" ELSE "image/png"

\* the ink of the source surface: the capture surface itself, or the
\* surface exportTypedSignature rendered
SourceInk == IF cur.source = "canvas" THEN canvas.ink ELSE cur.tempInk

\* canvas operations on the sample pixels
ClearRect(px) == [p \in Pix |-> "transparent"]
FillRect(px, colour) == [p \in Pix |-> colour]
DrawImage(px, ink) == [p \in Pix |-> IF p \in ink THEN "ink" ELSE px[p]]

\* a loop body that never paints the background
PrepareWorkNoFill(w, s, hasWhiteBg, ink) ==
  LET sized   == [p \in Pix |-> "transparent"]
      cleared == ClearRect(sized)
  IN  [ctx   |-> w.ctx,
       scale |-> <<s>>,
       ops   |-> <<"resize", "clearRect", "drawImage">>,
       px    |-> DrawImage(cleared, ink)]

\* lines 56-67: size the working surface (which empties it), clear it,
\* paint the background if asked, composite the source
PrepareWork(w, s, hasWhiteBg, ink) ==
  LET sized   == [p \in Pix |-> "transparent"]
      cleared == ClearRect(sized)
      filled  == IF hasWhiteBg THEN FillRect(cleared, "white") ELSE cleared
  IN  [ctx   |-> w.ctx,
       scale |-> <<s>>,
       ops   |-> <<"resize", "clearRect">>
                   \o (IF hasWhiteBg THEN <<"fillRect">> ELSE <<>>)
                   \o <<"drawImage">>,
       px    |-> DrawImage(filled, ink)]

\* workCanvas.toDataURL(mime, quality): the encoder takes a quality only
\* for the lossy type; len is the length of the string it returns
ToDataURL(w, mime, quality, len) ==
  [mime    |-> mime,
   quality |-> IF mime = "image/jpeg" THEN quality ELSE <<>>,
   scale   |-> w.scale,
   len     |-> len,
   px      |-> w.px]

\* one entry of the log of encodings: the encoding and the line that made it
Attempt(url, line) == [url |-> url, line |-> line]

\* what a search is run on: the source surface, the format and the
\* background flag
SearchKey ==
  [source |-> cur.source, ink |-> SourceInk, ops |-> cur.tempOps,
   format |-> cur.format, hasWhiteBg |-> cur.hasWhiteBg]

\* the lengths toDataURL(mime, quality) can return for the working surface
\* as it is: a deterministic encoder repeats what it returned for the same
\* surface, type and quality, earlier in this search or in the last one
EncoderLengths(mime, quality) ==
  LET probe == ToDataURL(work, mime, quality, 0)
      earlier == IF encoder.search.key = SearchKey
                   THEN {encoder.search.attempts[k].url :
                           k \in 1..Len(encoder.search.attempts)}
                   ELSE {}
      seen  == {attempts[k].url : k \in 1..Len(attempts)} \cup earlier
      known == {u.len : u \in {v \in seen : [v EXCEPT !.len = 0] = probe}}
  IN  IF encoder.deterministic /\ known # {} THEN known ELSE Lengths

\* a search whose starting quality is lowered once an export has saved a file
BeginSearchCarriesQuality(handler, format, source, tempInk, tempOps, workCtx) ==
  /\ isOptimizing' = TRUE
  /\ cur' = [handler |-> handler, format |-> format, source |-> source,
             tempInk |-> tempInk, tempOps |-> tempOps,
             hasWhiteBg |-> (format = "jpg"),
             quality |-> IF download = NoLink THEN F_0_9 ELSE FSub(F_0_9, F_0_1),
             mimeType |-> MimeType(format)]
  /\ scale' = F_1_0
  /\ work' = [ctx |-> workCtx, scale |-> <<>>, ops |-> <<>>,
              px |-> [p \in Pix |-> "transparent"]]
  /\ attempts' = <<>>
  /\ pc' = "while"
  /\ UNCHANGED <<q, result, rendered, download, outcome>>

\* lines 47-53, with the handler's setIsOptimizing(true) before the call
BeginSearch(handler, format, source, tempInk, tempOps, workCtx) ==
  /\ isOptimizing' = TRUE
  /\ cur' = [handler |-> handler, format |-> format, source |-> source,
             tempInk |-> tempInk, tempOps |-> tempOps,
             hasWhiteBg |-> (format = "jpg"),
             quality |-> F_0_9, mimeType |-> MimeType(format)]
  /\ scale' = F_1_0
  /\ work' = [ctx |-> workCtx, scale |-> <<>>, ops |-> <<>>,
              px |-> [p \in Pix |-> "transparent"]]
  /\ attempts' = <<>>
  /\ pc' = "while"
  /\ UNCHANGED <<q, result, rendered, download, outcome>>

\* a loop body that goes on from the quality the level above ended at
WhileBodyKeepsQuality ==
  /\ pc = "while"
  /\ FGt(scale, F_0_05)
  /\ IF work.ctx
       THEN /\ work' = PrepareWork(work, scale, cur.hasWhiteBg, SourceInk)
            /\ q' = IF attempts = <<>> THEN cur.quality ELSE q
            /\ pc' = IF cur.format = "jpg" THEN "for" ELSE "encode"
            /\ UNCHANGED result
       ELSE /\ work' = [work EXCEPT !.scale = <<scale>>, !.ops = <<"resize">>]
            /\ result' = [kind |-> "thrown", url |-> NoUrl, line |-> 60]
            /\ pc' = "flush"
            /\ UNCHANGED q
  /\ UNCHANGED <<isOptimizing, rendered, cur, scale, attempts, download, outcome>>
  /\ UNCHANGED drawVars
  /\ UNCHANGED last
  /\ UNCHANGED <<advisoryVars, encoder>>

\* while (scale > 0.05), lines 56-67; without a context line 60 throws
WhileBody ==
  /\ pc = "while"
  /\ FGt(scale, F_0_05)
  /\ IF work.ctx
       THEN /\ work' = PrepareWork(work, scale, cur.hasWhiteBg, SourceInk)
            /\ q' = cur.quality
            /\ pc' = IF cur.format = "jpg" THEN "for" ELSE "encode"
            /\ UNCHANGED result
       ELSE /\ work' = [work EXCEPT !.scale = <<scale>>, !.ops = <<"resize">>]
            /\ result' = [kind |-> "thrown", url |-> NoUrl, line |-> 60]
            /\ pc' = "flush"
            /\ UNCHANGED q
  /\ UNCHANGED <<isOptimizing, rendered, cur, scale, attempts, download, outcome>>
  /\ UNCHANGED drawVars
  /\ UNCHANGED last
  /\ UNCHANGED <<advisoryVars, encoder>>

\* a quality loop that goes on to a lower quality after the first fit
ForBodyKeepsSearching ==
  /\ pc = "for"
  /\ FGt(q, F_0_1)
  /\ \E len \in EncoderLengths(cur.mimeType, <<q>>) :
       LET url == ToDataURL(work, cur.mimeType, <<q>>, len)
       IN  /\ attempts' = Append(attempts, Attempt(url, 73))
           /\ IF Fits(len) /\ ~FGt(FSub(q, F_0_1), F_0_1)
                THEN /\ result' = [kind |-> "returned", url |-> url, line |-> 75]
                     /\ pc' = "flush"
                     /\ UNCHANGED q
                ELSE /\ q' = FSub(q, F_0_1)
                     /\ UNCHANGED <<result, pc>>
  /\ UNCHANGED <<isOptimizing, rendered, cur, scale, work, download, outcome>>
  /\ UNCHANGED drawVars
  /\ UNCHANGED last
  /\ UNCHANGED <<advisoryVars, encoder>>

\* for (q = quality; q > 0.1; q -= 0.1), lines 73-75
ForBody ==
  /\ pc = "for"
  /\ FGt(q, F_0_1)
  /\ \E len \in EncoderLengths(cur.mimeType, <<q>>) :
       LET url == ToDataURL(work, cur.mimeType, <<q>>, len)
       IN  /\ attempts' = Append(attempts, Attempt(url, 73))
           /\ IF Fits(len)
                THEN /\ result' = [kind |-> "returned", url |-> url, line |-> 75]
                     /\ pc' = "flush"
                     /\ UNCHANGED q
                ELSE /\ q' = FSub(q, F_0_1)
                     /\ UNCHANGED <<result, pc>>
  /\ UNCHANGED <<isOptimizing, rendered, cur, scale, work, download, outcome>>
  /\ UNCHANGED drawVars
  /\ UNCHANGED last
  /\ UNCHANGED <<advisoryVars, encoder>>

\* the quality loop ends without a fit: line 84
ForExit ==
  /\ pc = "for"
  /\ ~FGt(q, F_0_1)
  /\ scale' = FSub(scale, F_0_15)
  /\ pc' = "while"
  /\ UNCHANGED <<isOptimizing, rendered, cur, q, work, attempts, result,
                 download, outcome>>
  /\ UNCHANGED drawVars
  /\ UNCHANGED last
  /\ UNCHANGED <<advisoryVars, encoder>>

\* a lossless branch that sizes the source surface, which empties it
LosslessOnSource ==
  /\ pc = "encode"
  /\ \E len \in EncoderLengths(cur.mimeType, <<>>) :
       LET url == ToDataURL(work, cur.mimeType, <<>>, len)
       IN  /\ attempts' = Append(attempts, Attempt(url, 78))
           /\ IF Fits(len)
                THEN /\ result' = [kind |-> "returned", url |-> url, line |-> 80]
                     /\ pc' = "flush"
                     /\ UNCHANGED scale
                ELSE /\ scale' = FSub(scale, F_0_15)
                     /\ pc' = "while"
                     /\ UNCHANGED result
  /\ UNCHANGED <<isOptimizing, rendered, cur, q, work, download, outcome>>
  /\ canvas' = [canvas EXCEPT !.ink = {}]
  /\ UNCHANGED <<canvasCtx, ctxPath, isDrawing, points>>
  /\ UNCHANGED last
  /\ UNCHANGED <<advisoryVars, encoder>>

\* the lossless branch, lines 78-80, then line 84
Lossless ==
  /\ pc = "encode"
  /\ \E len \in EncoderLengths(cur.mimeType, <<>>) :
       LET url == ToDataURL(work, cur.mimeType, <<>>, len)
       IN  /\ attempts' = Append(attempts, Attempt(url, 78))
           /\ IF Fits(len)
                THEN /\ result' = [kind |-> "returned", url |-> url, line |-> 80]
                     /\ pc' = "flush"
                     /\ UNCHANGED scale
                ELSE /\ scale' = FSub(scale, F_0_15)
                     /\ pc' = "while"
                     /\ UNCHANGED result
  /\ UNCHANGED <<isOptimizing, rendered, cur, q, work, download, outcome>>
  /\ UNCHANGED drawVars
  /\ UNCHANGED last
  /\ UNCHANGED <<advisoryVars, encoder>>

\* a fallback that encodes at the starting quality
FallbackAtStartQuality ==
  /\ pc = "while"
  /\ ~FGt(scale, F_0_05)
  /\ \E len \in EncoderLengths(cur.mimeType, <<cur.quality>>) :
       LET url == ToDataURL(work, cur.mimeType, <<cur.quality>>, len)
       IN  /\ attempts' = Append(attempts, Attempt(url, 88))
           /\ result' = [kind |-> "returned", url |-> url, line |-> 88]
  /\ pc' = "flush"
  /\ UNCHANGED <<isOptimizing, rendered, cur, scale, q, work, download, outcome>>
  /\ UNCHANGED drawVars
  /\ UNCHANGED last
  /\ UNCHANGED <<advisoryVars, encoder>>

\* the loop is left: line 88
Fallback ==
  /\ pc = "while"
  /\ ~FGt(scale, F_0_05)
  /\ \E len \in EncoderLengths(cur.mimeType, <<F_0_1>>) :
       LET url == ToDataURL(work, cur.mimeType, <<F_0_1>>, len)
       IN  /\ attempts' = Append(attempts, Attempt(url, 88))
           /\ result' = [kind |-> "returned", url |-> url, line |-> 88]
  /\ pc' = "flush"
  /\ UNCHANGED <<isOptimizing, rendered, cur, scale, q, work, download, outcome>>
  /\ UNCHANGED drawVars
  /\ UNCHANGED last
  /\ UNCHANGED <<advisoryVars, encoder>>

(***************************************************************************)
(* Export handlers and the event loop                                      *)
(***************************************************************************)
ClearLocals ==
  /\ cur' = NoCur
  /\ scale' = NoFloat
  /\ q' = NoFloat
  /\ work' = NoWork
  /\ attempts' = <<>>
  /\ result' = NoResult

\* downloadAsImage up to its await: the guard, setIsOptimizing(true) and the
\* call of getOptimizedDataUrl, which runs synchronously (it has no await of
\* its own).  The canvas is mounted in every state, so canvasRef.current is
\* not null at the guard.
downloadAsImage(format, workCtx) ==
  /\ pc \in {"idle", "await"}
  /\ last' = [op |-> "downloadAsImage", pt |-> <<>>, ran |-> ~rendered.isOptimizing]
  /\ IF rendered.isOptimizing
       THEN UNCHANGED exportVars
       ELSE BeginSearch("downloadAsImage", format, "canvas", {}, <<>>, workCtx)
  /\ UNCHANGED drawVars
  /\ UNCHANGED <<advisoryVars, encoder>>

\* lines 207-225: the text drawn on the temporary surface
TypedOps(in) ==
  LET text == IF in.name = "" THEN "Signature" ELSE in.name
  IN  (IF in.typedWeight > 0
         THEN <<[op |-> "strokeText", text |-> text, font |-> in.font]>>
         ELSE <<>>)
      \o <<[op |-> "fillText", text |-> text, font |-> in.font]>>

\* an exportTypedSignature without the isOptimizing guard
exportTypedSignatureUnguarded(in, format, tempCtx, workCtx) ==
  /\ pc \in {"idle", "await"}
  /\ last' = [op |-> "exportTypedSignature", pt |-> <<>>, ran |-> TRUE]
  /\ IF tempCtx
       THEN BeginSearch("exportTypedSignature", format, "temp", {Centre},
                        TypedOps(in), workCtx)
       ELSE /\ isOptimizing' = TRUE
            /\ cur' = [NoCur EXCEPT !.handler = "exportTypedSignature",
                                    !.format = format, !.source = "temp"]
            /\ result' = [kind |-> "thrown", url |-> NoUrl, line |-> 213]
            /\ pc' = "flush"
            /\ UNCHANGED <<rendered, scale, q, work, attempts, download, outcome>>
  /\ UNCHANGED drawVars
  /\ UNCHANGED <<advisoryVars, encoder>>

\* exportTypedSignature up to its await; without a context for the
\* temporary surface line 213 throws, outside the try
exportTypedSignature(in, format, tempCtx, workCtx) ==
  /\ pc \in {"idle", "await"}
  /\ last' = [op |-> "exportTypedSignature", pt |-> <<>>, ran |-> ~rendered.isOptimizing]
  /\ IF rendered.isOptimizing
       THEN UNCHANGED exportVars
       ELSE IF tempCtx
         THEN BeginSearch("exportTypedSignature", format, "temp", {Centre},
                          TypedOps(in), workCtx)
         ELSE /\ isOptimizing' = TRUE
              /\ cur' = [NoCur EXCEPT !.handler = "exportTypedSignature",
                                      !.format = format, !.source = "temp"]
              /\ result' = [kind |-> "thrown", url |-> NoUrl, line |-> 213]
              /\ pc' = "flush"
              /\ UNCHANGED <<rendered, scale, q, work, attempts, download, outcome>>
  /\ UNCHANGED drawVars
  /\ UNCHANGED <<advisoryVars, encoder>>

\* the download buttons carry disabled={isOptimizing}
ClickDownload ==
  /\ ~rendered.isOptimizing
  /\ \E format \in Formats, workCtx \in BOOLEAN : downloadAsImage(format, workCtx)

\* a rejected call creates no surface, so no context outcome is drawn for it
ClickTyped ==
  \E in \in TypedInputs, format \in Formats :
    IF rendered.isOptimizing
      THEN exportTypedSignature(in, format, TRUE, TRUE)
      ELSE \E tempCtx \in BOOLEAN, workCtx \in BOOLEAN :
             exportTypedSignature(in, format, tempCtx, workCtx)

\* what a commit of React shows to the handlers it renders
Commit == [isOptimizing |-> isOptimizing, isAnalyzing |-> isAnalyzing]

\* the handler has returned its promise: React commits the state set in the
\* click before the event loop goes on; a handler that threw outside its
\* try has no continuation
FlushSync ==
  /\ pc = "flush"
  /\ rendered' = Commit
  /\ IF result.line = 213
       THEN /\ pc' = "idle"
            /\ outcome' = "uncaught"
            /\ ClearLocals
       ELSE /\ pc' = "await"
            /\ UNCHANGED <<outcome, cur, scale, q, work, attempts, result>>
  /\ UNCHANGED <<isOptimizing, download>>
  /\ UNCHANGED drawVars
  /\ UNCHANGED last
  /\ UNCHANGED <<advisoryVars, encoder>>

Link(base, format, url) ==
  [download |-> <<base, ".", format>>, mime |-> url.mime, len |-> url.len]

\* the continuation after the await: the link, then catch / finally
Resume(clickOk) ==
  /\ pc = "await"
  /\ IF result.kind = "returned" /\ clickOk
       THEN /\ download' = Link(IF cur.handler = "downloadAsImage"
                                  THEN "signature" ELSE "typed-signature",
                                cur.format, result.url)
            /\ outcome' = "saved"
       ELSE /\ UNCHANGED download
            /\ outcome' = IF cur.handler = "downloadAsImage"
                            THEN "caught" ELSE "uncaught"
  /\ isOptimizing' = FALSE
  /\ pc' = "idle"
  /\ ClearLocals
  /\ UNCHANGED rendered
  /\ UNCHANGED drawVars
  /\ UNCHANGED last
  /\ UNCHANGED advisoryVars
  /\ encoder' = IF encoder.deterministic /\ result.kind = "returned"
                  THEN [encoder EXCEPT !.search = [key |-> SearchKey,
                                                   attempts |-> attempts,
                                                   result |-> result]]
                  ELSE encoder

Continue == \E clickOk \in BOOLEAN : Resume(clickOk)

\* React commits a state set outside an event handler
Render ==
  /\ pc = "idle"
  /\ rendered # Commit
  /\ rendered' = Commit
  /\ UNCHANGED <<isOptimizing, pc, cur, scale, q, work, attempts, result,
                 download, outcome>>
  /\ UNCHANGED drawVars
  /\ UNCHANGED last
  /\ UNCHANGED <<advisoryVars, encoder>>

\* the exports of the capture surface in a browser whose encoder is
\* deterministic
InitDet == Mount(TRUE)

NextDet == \/ ClickDownload
           \/ WhileBody \/ ForBody \/ ForExit \/ Lossless \/ Fallback
           \/ FlushSync \/ Continue \/ Render

SpecDet == InitDet /\ [][NextDet]_vars

(***************************************************************************)
(* The advisory analysis: analyzeSignature                                 *)
(***************************************************************************)
\* the texts a fulfilled generateContent call can carry, the empty one
\* included, and the ways the call can settle
ServiceTexts == {"", "Bold and professional."}
Responses == {[kind |-> "fulfilled", text |-> t] : t \in ServiceTexts}
               \cup {[kind |-> "rejected", text |-> ""]}

\* where the try block of analyzeSignature can throw before its await:
\* line 243 (client), line 244 (serialization), line 245 (the call itself)
Failures == {"none", "client", "serialize", "call"}

Unavailable == "Analysis unavailable."
CouldNotAnalyze == "Could not analyze signature at this time."

\* an analyzeSignature that constructs its client before the try
analyzeSignatureClientOutsideTry(fail) ==
  /\ pc = "idle"
  /\ last' = [op |-> "analyzeSignature", pt |-> <<>>, ran |-> ~rendered.isAnalyzing]
  /\ IF rendered.isAnalyzing
       THEN UNCHANGED <<advisoryVars, rendered>>
       ELSE /\ rendered' = [isOptimizing |-> isOptimizing,
                            isAnalyzing |-> (fail \in {"none", "client"})]
            /\ IF fail = "none"
                 THEN /\ isAnalyzing' = TRUE
                      /\ aiAnalysis' = <<>>
                      /\ request' = "pending"
                      /\ analysisEnd' = [failed |-> "none", by |-> "none"]
                 ELSE IF fail = "client"
                   THEN /\ isAnalyzing' = TRUE
                        /\ aiAnalysis' = <<>>
                        /\ request' = "none"
                        /\ analysisEnd' = [failed |-> fail, by |-> "uncaught"]
                   ELSE /\ isAnalyzing' = FALSE
                        /\ aiAnalysis' = <<CouldNotAnalyze>>
                        /\ request' = "none"
                        /\ analysisEnd' = [failed |-> fail, by |-> "caught"]
  /\ UNCHANGED drawVars
  /\ UNCHANGED <<isOptimizing, pc, cur, scale, q, work, attempts, result,
                 download, outcome, encoder>>

\* analyzeSignature up to its await (lines 239-245), or through its catch
\* and finally when the try block throws before the await; the canvas is
\* mounted, so only isAnalyzing can stop it at the guard.  React commits
\* the state set in the click when the handler has returned.
analyzeSignature(fail) ==
  /\ pc = "idle"
  /\ last' = [op |-> "analyzeSignature", pt |-> <<>>, ran |-> ~rendered.isAnalyzing]
  /\ IF rendered.isAnalyzing
       THEN UNCHANGED <<advisoryVars, rendered>>
       ELSE /\ rendered' = [isOptimizing |-> isOptimizing,
                            isAnalyzing |-> (fail = "none")]
            /\ IF fail = "none"
                 THEN /\ isAnalyzing' = TRUE
                      /\ aiAnalysis' = <<>>
                      /\ request' = "pending"
                      /\ analysisEnd' = [failed |-> "none", by |-> "none"]
                 ELSE /\ isAnalyzing' = FALSE
                      /\ aiAnalysis' = <<CouldNotAnalyze>>
                      /\ request' = "none"
                      /\ analysisEnd' = [failed |-> fail, by |-> "caught"]
  /\ UNCHANGED drawVars
  /\ UNCHANGED <<isOptimizing, pc, cur, scale, q, work, attempts, result,
                 download, outcome, encoder>>

\* a continuation that shows the service text as it is, empty or not
settleWithoutPlaceholder(resp) ==
  /\ pc = "idle"
  /\ request = "pending"
  /\ last' = [op |-> "settle", pt |-> <<>>, ran |-> TRUE]
  /\ IF resp.kind = "rejected"
       THEN /\ aiAnalysis' = <<CouldNotAnalyze>>
            /\ analysisEnd' = [failed |-> "rejected", by |-> "caught"]
       ELSE /\ aiAnalysis' = <<resp.text>>
            /\ analysisEnd' = [failed |-> "none",
                               by |-> IF resp.text = "" THEN "placeholder" ELSE "text"]
  /\ isAnalyzing' = FALSE
  /\ request' = "none"
  /\ UNCHANGED drawVars
  /\ UNCHANGED <<isOptimizing, rendered, pc, cur, scale, q, work, attempts,
                 result, download, outcome, encoder>>

\* the continuation after the await: lines 254-258
settle(resp) ==
  /\ pc = "idle"
  /\ request = "pending"
  /\ last' = [op |-> "settle", pt |-> <<>>, ran |-> TRUE]
  /\ IF resp.kind = "rejected"
       THEN /\ aiAnalysis' = <<CouldNotAnalyze>>
            /\ analysisEnd' = [failed |-> "rejected", by |-> "caught"]
       ELSE /\ aiAnalysis' = <<IF resp.text = "" THEN Unavailable ELSE resp.text>>
            /\ analysisEnd' = [failed |-> "none",
                               by |-> IF resp.text = "" THEN "placeholder" ELSE "text"]
  /\ isAnalyzing' = FALSE
  /\ request' = "none"
  /\ UNCHANGED drawVars
  /\ UNCHANGED <<isOptimizing, rendered, pc, cur, scale, q, work, attempts,
                 result, download, outcome, encoder>>

\* the AI Analysis button carries disabled={isAnalyzing}
AnalyzeSignature ==
  /\ ~rendered.isAnalyzing
  /\ \E fail \in Failures : analyzeSignature(fail)
Settle == \E resp \in Responses : settle(resp)

\* the analysis reads the capture surface; it is explored together with
\* the stroke handlers
NextAnalysis == \/ StartDrawing \/ Draw \/ EndDrawing \/ ClearCanvas \/ SetupCanvas
                \/ AnalyzeSignature \/ Settle \/ Render

SpecAnalysis == Init /\ [][NextAnalysis]_vars

\* the awaited call settles, fulfilled or rejected
SpecAnalysisFair == Init /\ [][NextAnalysis]_vars /\ WF_vars(Settle)

\* The export steps read the capture surface and write none of the stroke
\* variables; the stroke handlers write none of the export variables.  The
\* groups are explored by specifications of their own over the same state:
\* the exports (Spec, SpecFair, SpecDet), the strokes (SpecStroke), the
\* strokes with the analysis (SpecAnalysis) and the strokes with lossless
\* downloads (SpecSession).
NextExport == \/ ClickDownload \/ ClickTyped
              \/ WhileBody \/ ForBody \/ ForExit \/ Lossless \/ Fallback
              \/ FlushSync \/ Continue \/ Render

Spec == Init /\ [][NextExport]_vars

\* A signing session: strokes, clear and resize, and lossless downloads of
\* the capture surface, on one event loop.
SessionFormats == {"png"}

ClickDownloadSession ==
  /\ ~rendered.isOptimizing
  /\ \E format \in SessionFormats : downloadAsImage(format, TRUE)

NextSession == \/ StartDrawing \/ Draw \/ EndDrawing \/ ClearCanvas \/ SetupCanvas
               \/ ClickDownloadSession
               \/ WhileBody \/ Lossless \/ Fallback
               \/ FlushSync \/ Continue \/ Render

SpecSession == Init /\ [][NextSession]_vars

\* the steps of a running search
SearchStep == WhileBody \/ ForBody \/ ForExit \/ Lossless \/ Fallback

\* a search that has started runs on: the script is not preempted
SpecFair == Init /\ [][NextExport]_vars /\ WF_vars(SearchStep)

(***************************************************************************)
(* Properties of the bounded exporter                                      *)
(***************************************************************************)
\* the encodings made inside the loop
InLoop(k) == attempts[k].line # 88

\* the scale levels the search has encoded at
ScaleLevels == {attempts[k].url.scale : k \in 1..Len(attempts)}

\* the quality steps made at one scale level
QualitySteps(s) ==
  Cardinality({k \in 1..Len(attempts) :
                 attempts[k].url.scale = s /\ attempts[k].line = 73})

\* C1: an artifact returned from inside the loop has an estimated size of at
\* most 25600 bytes; the return after the loop is reached only when every
\* encoding of the loop was too large and the scale went down to its floor.
C1_CeilingInvariant ==
  result.kind = "returned" =>
    /\ result.line \in {75, 80} => EstimatedSize(result.url.len) <= 25600
    /\ result.line = 88 =>
         /\ Len(attempts) >= 2
         /\ \A k \in 1..(Len(attempts) - 1) :
              /\ InLoop(k)
              /\ EstimatedSize(attempts[k].url.len) > 25600
         /\ ~FGt(FSub(attempts[Len(attempts) - 1].url.scale[1], F_0_15), F_0_05)

C1_Witness ==
  /\ result.kind = "returned"
  /\ result.line = 75
  /\ result.url.len = 34155
  /\ Len(attempts) > 9

\* C2: the search makes at most 7 scale levels and at most 9 quality steps at
\* a level, and a search that has started reaches its return.
C2_Bounded ==
  /\ Cardinality(ScaleLevels) <= 7
  /\ \A s \in ScaleLevels : QualitySteps(s) <= 9

C2_Terminates ==
  /\ []C2_Bounded
  /\ (pc \in {"while", "for", "encode"}) ~> (pc = "flush")

C2_Witness ==
  /\ result.line = 88
  /\ Cardinality(ScaleLevels) = 7
  /\ \A s \in ScaleLevels : QualitySteps(s) = 9
  /\ Len(attempts) = 64

\* the order of the search: a larger scale first, and at one scale a higher
\* quality first
Before(a, b) ==
  \/ FGt(a.url.scale[1], b.url.scale[1])
  \/ /\ a.url.scale = b.url.scale
     /\ a.url.quality # <<>> /\ b.url.quality # <<>>
     /\ FGt(a.url.quality[1], b.url.quality[1])

\* C3: the search starts at scale 1.0 (quality 0.9 when lossy), goes through
\* the combinations in order, and the first encoding of the loop that fits
\* is the last encoding made and is the one returned.
C3_FirstFit ==
  /\ \A k \in 1..Len(attempts) :
       (InLoop(k) /\ EstimatedSize(attempts[k].url.len) <= 25600) =>
          /\ k = Len(attempts)
          /\ result.kind = "returned"
          /\ result.url = attempts[k].url
          /\ pc \in {"flush", "await"}
  /\ \A k \in 1..(Len(attempts) - 1) :
       InLoop(k + 1) => Before(attempts[k], attempts[k + 1])
  /\ Len(attempts) >= 1 =>
       /\ attempts[1].url.scale = <<F_1_0>>
       /\ attempts[1].url.mime = "image/jpeg" => attempts[1].url.quality = <<F_0_9>>

C3_Witness ==
  /\ result.kind = "returned"
  /\ result.line = 75
  /\ Len(attempts) = 11
  /\ result.url.scale # <<F_1_0>>

\* C4 as stated: the fallback is a lossy encoding at quality 0.1 for either
\* requested format.
C4_FallbackLossy ==
  result.line = 88 =>
    /\ result.url.mime = "image/jpeg"
    /\ result.url.quality = <<F_0_1>>
    /\ result.url.scale = attempts[Len(attempts) - 1].url.scale

\* C4 amended: the fallback is one more encoding of the working surface at
\* the last attempted scale in the requested format: lossy at quality 0.1
\* for jpg, lossless (the quality has no effect) for png.
C4_FallbackRequestedFormat ==
  result.line = 88 =>
    /\ Len(attempts) >= 2
    /\ attempts[Len(attempts)].url = result.url
    /\ result.url.scale = attempts[Len(attempts) - 1].url.scale
    /\ result.url.scale = work.scale
    /\ result.url.px = work.px
    /\ result.url.mime = MimeType(cur.format)
    /\ cur.format = "jpg" => result.url.quality = <<F_0_1>>
    /\ cur.format = "png" => result.url.quality = <<>>

C4_Witness ==
  /\ result.line = 88
  /\ cur.format = "png"
  /\ result.url.mime = "image/png"
  /\ result.url.len = 34156

(***************************************************************************)
(* Properties of the export handlers                                       *)
(***************************************************************************)
ExportOps == {"downloadAsImage", "exportTypedSignature"}

\* an export starts: a handler passes its guard
ExportStarts == pc \in {"idle", "await"} /\ pc' \in {"while", "flush"}

\* C5: an export in flight has the flag set, and whenever a click can be
\* taken the rendered handlers see a set flag; a call of an export handler
\* that sees the flag starts nothing and changes nothing of the exports.
C5_OneExportInFlight ==
  [][ /\ pc' # "idle" => isOptimizing'
      /\ (pc' \in {"idle", "await"} /\ isOptimizing') => rendered'.isOptimizing
      /\ rendered.isOptimizing =>
           /\ ~ExportStarts
           /\ (last' # last /\ last'.op \in ExportOps) =>
                (~last'.ran /\ UNCHANGED exportVars) ]_vars

C5_Witness ==
  /\ pc = "await"
  /\ cur.handler = "downloadAsImage"
  /\ last.op = "exportTypedSignature"
  /\ ~last.ran
  /\ rendered.isOptimizing

\* C6 as stated: once an export has ended, isOptimizing is false again.
C6_FlagCleared == pc = "idle" => ~isOptimizing

\* C10: each encoding of a lossy export is of a working surface that was
\* cleared, painted white and then composited, and has no transparent pixel;
\* a lossless export paints no background.
C10_Background ==
  /\ (cur.handler \in ExportOps /\ cur.mimeType # "none") =>
       cur.hasWhiteBg = (cur.format = "jpg")
  /\ pc \in {"for", "encode"} =>
       work.ops = IF cur.format = "jpg"
                    THEN <<"resize", "clearRect", "fillRect", "drawImage">>
                    ELSE <<"resize", "clearRect", "drawImage">>
  /\ \A k \in 1..Len(attempts) :
       LET u == attempts[k].url
       IN  /\ u.mime = "image/jpeg" <=> cur.format = "jpg"
           /\ \A p \in Pix :
                u.px[p] = IF p \in SourceInk THEN "ink"
                          ELSE IF cur.format = "jpg" THEN "white"
                          ELSE "transparent"

C10_Witness ==
  /\ cur.handler = "exportTypedSignature"
  /\ Len(attempts) >= 10
  /\ attempts[10].url.mime = "image/jpeg"
  /\ attempts[10].url.px[Centre] = "ink"
  /\ attempts[10].url.px[TopRight] = "white"

(***************************************************************************)
(* Properties of the stroke capture                                        *)
(***************************************************************************)
\* C7: a draw that leaves fewer than 3 points in the session changes neither
\* the surface nor the path; the draw that brings the session to 3 points
\* strokes the path of these 3 points.
C7_MinimumPoints ==
  [][ last'.op = "draw" =>
        /\ Len(points') < 3 => (canvas' = canvas /\ ctxPath' = ctxPath)
        /\ (Len(points) = 2 /\ Len(points') = 3) =>
             /\ ctxPath' = SmoothPath(points')
             /\ Len(ctxPath') = 2
             /\ OnCurve(ctxPath') \subseteq canvas'.ink ]_vars

C7_Witness ==
  /\ last.op = "draw"
  /\ last.ran
  /\ Len(points) = 3
  /\ ctxPath = SmoothPath(points)
  /\ OnCurve(ctxPath) \subseteq canvas.ink

\* C8: startDrawing leaves a session of exactly the given point and draws
\* nothing; a path drawn afterwards is built from the session's points alone.
C8_Begin ==
  [][ /\ last'.op = "startDrawing" =>
           /\ points' = last'.pt
           /\ Len(points') = 1
           /\ isDrawing'
           /\ canvas' = canvas
           /\ ctxPath' = ctxPath
      /\ (last'.op = "draw" /\ ctxPath' # ctxPath) =>
           /\ points' = Append(points, last'.pt[1])
           /\ ctxPath' = SmoothPath(points')
           /\ canvas'.ink = canvas.ink \cup OnCurve(SmoothPath(points')) ]_vars

C8_Witness ==
  /\ last.op = "startDrawing"
  /\ points = last.pt
  /\ canvas.ink # {}
  /\ Len(ctxPath) = 3
  /\ ctxPath[1] # MoveTo(points[1])

\* C9: an end closes the session and only startDrawing opens one; a draw
\* while no session is open, before the first begin included, appends no
\* point and draws nothing.
C9_EndCloses ==
  [][ /\ last.op = "mount" => ~isDrawing
      /\ last'.op = "end" => ~isDrawing'
      /\ (isDrawing' /\ ~isDrawing) => last'.op = "startDrawing"
      /\ (last'.op = "draw" /\ ~isDrawing) =>
           (points' = points /\ canvas' = canvas /\ ctxPath' = ctxPath) ]_vars

C9_Witness ==
  /\ last.op = "draw"
  /\ ~last.ran
  /\ ~isDrawing
  /\ canvasCtx
  /\ Len(points) = 3
  /\ ctxPath = SmoothPath(points)

(***************************************************************************)
(* Properties of the quality loop and the size test                        *)
(***************************************************************************)
\* the first encoding made at its scale level
FirstAtLevel(k) == k = 1 \/ attempts[k - 1].url.scale # attempts[k].url.scale

\* C20: the starting quality of a search is 0.9 and is never lowered: each
\* entry into the quality loop, at the first scale level and at every
\* smaller one, sets the quality to 0.9, and the first lossy encoding of
\* every scale level is made at 0.9.
C20_QualityRestarts ==
  [][ /\ (pc' \in {"while", "for", "encode"}) => cur'.quality = F_0_9
      /\ (pc = "while" /\ pc' = "for") => q' = F_0_9
      /\ \A k \in 1..Len(attempts') :
           (attempts'[k].line = 73 /\ FirstAtLevel(k)') =>
              attempts'[k].url.quality = <<F_0_9>> ]_vars

C20_Witness ==
  /\ pc = "for"
  /\ q = F_0_9
  /\ Len(attempts) = 18
  /\ \A k \in 1..18 : ~Fits(attempts[k].url.len)
  /\ attempts[10].url.quality = <<F_0_9>>
  /\ attempts[10].url.scale # attempts[9].url.scale

\* two doubles that differ by rounding error only: by at most 2^-50
Near(a, b) ==
  LET d == IF FGt(a, b) THEN FSubExact(a, b) ELSE FSubExact(b, a)
  IN  d.hi = 0 /\ d.lo <= 2^6

\* the quality of the k-th encoding
QualityOf(k) == attempts[k].url.quality[1]

\* C16: at a lossy scale level without a fit the qualities tried are 0.9,
\* 0.8, ..., 0.1, nine of them in decrements of 0.1 (each up to the rounding
\* error of the double subtraction): the scale is reduced only after the
\* encoding at quality 0.1 was made at that level.
C16_QualityLadder ==
  [][ (pc = "for" /\ pc' = "while") =>
        LET n == Len(attempts)
        IN  /\ n >= 9
            /\ \A k \in (n - 8)..n :
                 /\ attempts[k].line = 73
                 /\ attempts[k].url.scale = <<scale>>
            /\ n > 9 => attempts[n - 9].url.scale # <<scale>>
            /\ QualityOf(n - 8) = F_0_9
            /\ \A k \in (n - 8)..(n - 1) :
                 /\ FGt(QualityOf(k), QualityOf(k + 1))
                 /\ Near(FSubExact(QualityOf(k), QualityOf(k + 1)), F_0_1)
            /\ Near(QualityOf(n), F_0_1)
            /\ scale' # scale ]_vars

C16_Witness ==
  /\ pc = "while"
  /\ Len(attempts) = 9
  /\ scale # F_1_0
  /\ attempts[9].url.scale = <<F_1_0>>
  /\ Near(QualityOf(9), F_0_1)
  /\ ~Fits(attempts[9].url.len)

\* C18: an encoding of the loop, lossy or lossless, is accepted (it is the
\* one returned, by the line after its test) exactly when (L - 22) * 3 / 4,
\* rounded to the nearest integer, is at most 25600, L being the length of
\* the data URL: that is when (L - 22) * 3 / 4 < 25600 + 1/2.
C18_SizeTest ==
  [][ \A k \in 1..Len(attempts') :
        (Len(attempts') = Len(attempts) + 1 /\ k = Len(attempts')
           /\ attempts'[k].line \in {73, 78}) =>
          LET L == attempts'[k].url.len
              accepted == /\ result'.kind = "returned"
                          /\ result'.url = attempts'[k].url
                          /\ result'.line = attempts'[k].line + 2
                          /\ pc' = "flush"
          IN  /\ accepted <=> 2 * 3 * (L - 22) < 2 * 4 * 25600 + 4
              /\ ~accepted => (result' = NoResult /\ pc' \in {"for", "while"}) ]_vars

C18_Witness ==
  /\ result.line = 80
  /\ result.url.mime = "image/png"
  /\ result.url.len = 34155
  /\ Len(attempts) >= 2
  /\ attempts[1].url.len = 34156
  /\ attempts[1].line = 78

(***************************************************************************)
(* Properties of the smoothing path                                        *)
(***************************************************************************)
\* C17: a draw that leaves n >= 3 points builds one path and strokes it
\* once: a move to point[0], for every i in 1..n-3 a quadratic curve with
\* control point[i] ending at the midpoint of point[i] and point[i+1], and
\* a last quadratic curve with control point[n-2] ending at point[n-1]:
\* n - 2 curves in all.  (Coordinates of the path are in half pixels;
\* point[i] of the source is points[i + 1] here.)
C17_PathShape ==
  [][ (last' # last /\ last'.op = "draw" /\ last'.ran /\ Len(points') >= 3) =>
        LET n == Len(points')
            P(i) == points'[i + 1]
        IN  /\ Len(ctxPath') = n - 1
            /\ ctxPath'[1] = [op |-> "M", cx |-> 0, cy |-> 0,
                              x |-> 2 * P(0).x, y |-> 2 * P(0).y]
            /\ \A i \in 1..(n - 3) :
                 ctxPath'[i + 1] = [op |-> "Q",
                                    cx |-> 2 * P(i).x, cy |-> 2 * P(i).y,
                                    x |-> P(i).x + P(i + 1).x,
                                    y |-> P(i).y + P(i + 1).y]
            /\ ctxPath'[n - 1] = [op |-> "Q",
                                  cx |-> 2 * P(n - 2).x, cy |-> 2 * P(n - 2).y,
                                  x |-> 2 * P(n - 1).x, y |-> 2 * P(n - 1).y]
            /\ Cardinality({k \in 1..Len(ctxPath') : ctxPath'[k].op = "Q"}) = n - 2
            /\ canvas'.ink = canvas.ink \cup OnCurve(ctxPath') ]_vars

C17_Witness ==
  /\ last.op = "draw"
  /\ last.ran
  /\ Len(points) = 4
  /\ points[2] # points[3]
  /\ Len(ctxPath) = 3
  /\ ctxPath[2].op = "Q"
  /\ ctxPath[2].x = points[2].x + points[3].x
  /\ ctxPath[2].x # ctxPath[2].cx

(***************************************************************************)
(* Properties of the failure paths                                         *)
(***************************************************************************)
\* C15 as stated: an artifact of the fallback path is told apart from one
\* that met the ceiling, and is never handed to the download as an ordinary
\* result.  getOptimizedDataUrl returns the bare data URL in both cases, so
\* the handlers have one way only of handing an artifact on: an artifact
\* of line 88 above the ceiling must then not be saved by them.
C15_FallbackFlagged ==
  [][ (pc = "await" /\ result.kind = "returned" /\ result.line = 88
         /\ EstimatedSize(result.url.len) > 25600) =>
        outcome' # "saved" ]_vars

\* C13 as stated: an export that fails after its handler passed the guard,
\* in the search or at the hand-off of the link, ends with the failure
\* caught and logged by the handler, from downloadAsImage and from
\* exportTypedSignature alike, and with the flag cleared.
C13_FailuresCaught ==
  [][ (pc = "await" /\ pc' = "idle") =>
        /\ outcome' \in {"saved", "caught"}
        /\ ~isOptimizing' ]_vars

\* C14 as stated: a handler called while the 2D context it draws on is
\* absent returns without raising an error and without changing any state:
\* a stroke handler on a capture surface without context changes nothing,
\* and an export whose surface has no context ends without an error
\* leaving the handler and with the flag as it was before the call.
C14_SilentNoOp ==
  [][ /\ (last' # last /\ ~canvasCtx
            /\ last'.op \in {"startDrawing", "draw", "clearCanvas", "setupCanvas"}) =>
           UNCHANGED <<drawVars, exportVars>>
      /\ (result.kind = "thrown" /\ pc' = "idle") =>
           /\ outcome' # "uncaught"
           /\ ~isOptimizing' ]_vars

\* C12: a failure raised inside analyzeSignature, before its await (client
\* construction, serialization, the call) or by the awaited call, ends
\* caught with the static fallback message as the analysis text and the
\* analyzing flag cleared, never outside the handler; and no step of an
\* analysis changes the optimizing flag, the export in flight, the stroke
\* session or the capture surface.
C12_FailuresContained ==
  [][ (last' # last /\ last'.op \in {"analyzeSignature", "settle"}) =>
        /\ UNCHANGED <<canvasCtx, canvas, ctxPath, isDrawing, points>>
        /\ UNCHANGED <<isOptimizing, pc, cur, scale, q, work, attempts, result,
                       download, outcome>>
        /\ analysisEnd'.by # "uncaught"
        /\ (last'.ran /\ analysisEnd'.failed # "none") =>
             /\ analysisEnd'.by = "caught"
             /\ aiAnalysis' = <<"Could not analyze signature at this time.">>
             /\ ~isAnalyzing'
             /\ request' = "none" ]_vars

C12_Witness ==
  /\ last.op = "settle"
  /\ analysisEnd = [failed |-> "rejected", by |-> "caught"]
  /\ aiAnalysis = <<CouldNotAnalyze>>
  /\ ~isAnalyzing
  /\ canvas.ink # {}
  /\ isDrawing
  /\ Len(points) = 3

(***************************************************************************)
(* Properties of repeated and of running searches                          *)
(***************************************************************************)
\* C11: with a deterministic encoder, a search on the same source surface,
\* format and background flag as the search completed before it makes the
\* same encodings in the same order, (scale, quality) and result of each
\* included, and returns the identical artifact from the same line.
C11_Determinism ==
  (encoder.deterministic /\ cur.mimeType # "none"
     /\ encoder.search.key = SearchKey) =>
    /\ Len(attempts) <= Len(encoder.search.attempts)
    /\ \A k \in 1..Len(attempts) : attempts[k] = encoder.search.attempts[k]
    /\ result.kind = "returned" =>
         /\ attempts = encoder.search.attempts
         /\ result = encoder.search.result

C11_Witness ==
  /\ encoder.deterministic
  /\ encoder.search.key = SearchKey
  /\ result.kind = "returned"
  /\ result.line = 75
  /\ Len(attempts) >= 10
  /\ attempts = encoder.search.attempts
  /\ result.url = encoder.search.result.url
  /\ download.len # result.url.len

\* a search is running: getOptimizedDataUrl has not returned yet
Searching == pc \in {"while", "for", "encode"}

\* C19: from the start of a search to its return, with a fit or with the
\* fallback, no handler runs and nothing cancels it: every step taken is a
\* step of the search, which leaves the capture surface, the stroke session
\* and the export's inputs alone; so every encoding of the search shows the
\* capture surface as it was when the export started.
C19_NoInterleaving ==
  [][ /\ Searching =>
           /\ last' = last
           /\ UNCHANGED <<canvasCtx, canvas, ctxPath, isDrawing, points>>
           /\ cur' = cur
           /\ pc' \in {"while", "for", "encode", "flush"}
           /\ pc' = "flush" => result'.kind \in {"returned", "thrown"}
           /\ Len(attempts') >= Len(attempts)
      /\ (~Searching /\ Searching') => attempts' = <<>>
      /\ (Searching' /\ cur'.source = "canvas") =>
           \A k \in 1..Len(attempts') : \A p \in Pix :
              attempts'[k].url.px[p] = "ink" <=> p \in canvas.ink ]_vars

C19_Witness ==
  /\ pc = "encode"
  /\ Len(attempts) = 3
  /\ isDrawing
  /\ Len(points) = 3
  /\ canvas.ink # {}
  /\ \A p \in Pix : attempts[1].url.px[p] = "ink" <=> p \in canvas.ink
  /\ download # NoLink

(***************************************************************************)
(* Frame of an export; the analysis in flight                              *)
(***************************************************************************)
\* C21: no step of an export, from the click on a download button through
\* the search, the commit and the hand-off of the link to the end of the
\* handler, changes the capture surface, its path, the session's points or
\* the drawing flag; the search writes to its working surface only.  So
\* after downloadAsImage they are what they were before it.
C21_InputUnchanged ==
  [][ /\ (pc # "idle" \/ pc' # "idle") =>
           UNCHANGED <<canvasCtx, canvas, ctxPath, isDrawing, points>>
      /\ (last' # last /\ last'.op = "downloadAsImage") =>
           UNCHANGED <<canvasCtx, canvas, ctxPath, isDrawing, points>>
      /\ (pc = "while" /\ pc' \in {"for", "encode"}) =>
           \A p \in canvas.ink : work'.px[p] = "ink" ]_vars

C21_Witness ==
  /\ pc = "idle"
  /\ last.op = "downloadAsImage"
  /\ last.ran
  /\ outcome = "saved"
  /\ download.len = 34155
  /\ isDrawing
  /\ Len(points) = 4
  /\ ctxPath = SmoothPath(points)
  /\ OnCurve(ctxPath) \subseteq canvas.ink

\* an analyzeSignature ends: at its continuation, or in the call itself
\* when the try block throws before the await
AnalysisEnds ==
  /\ last' # last
  /\ \/ last'.op = "settle"
     \/ last'.op = "analyzeSignature" /\ last'.ran /\ ~isAnalyzing'

\* C22: the analyzing flag is set exactly while one call of the service is
\* awaited; analyzeSignature called while the flag is set starts nothing
\* and changes nothing (the rendered button is disabled as long as the
\* flag is set, so no click calls it then), and one that starts finds no
\* call in flight; an analysis that ends, with the service's text, with an
\* empty text or with a failure, leaves the flag cleared and a text that
\* is not empty; and a flag that is set is cleared again once the awaited
\* call settles.
C22_Safety ==
  /\ (last' # last /\ last'.op = "analyzeSignature" /\ isAnalyzing) =>
       /\ ~last'.ran
       /\ UNCHANGED <<isAnalyzing, aiAnalysis, request, analysisEnd>>
  /\ (isAnalyzing \/ request = "pending") =>
       /\ rendered.isAnalyzing
       /\ ~(last' # last /\ last'.op = "analyzeSignature")
  /\ (last' # last /\ last'.op = "analyzeSignature" /\ last'.ran) =>
       /\ request = "none"
       /\ ~isAnalyzing
  /\ isAnalyzing' <=> request' = "pending"
  /\ AnalysisEnds =>
       /\ ~isAnalyzing'
       /\ Len(aiAnalysis') = 1
       /\ aiAnalysis'[1] # ""
       /\ (last'.op = "settle" /\ analysisEnd'.by = "text") =>
            aiAnalysis'[1] \in ServiceTexts

\* C22: the steps of an analysis keep the above, and an analysis that has
\* started clears isAnalyzing again, whether its call succeeds or fails.
C22_OneAnalysis ==
  /\ [][C22_Safety]_vars
  /\ isAnalyzing ~> ~isAnalyzing

C22_Witness ==
  /\ last.op = "settle"
  /\ analysisEnd.by = "placeholder"
  /\ aiAnalysis = <<"Analysis unavailable.">>
  /\ ~isAnalyzing
  /\ request = "none"
  /\ rendered.isAnalyzing

====
